---- MODULE Spec2Model ----
(***************************************************************************)
(* A model of the langgraph_example tutorial programs:                     *)
(*   - the step-status streaming relay (7.langgraph流式输出.py):           *)
(*     stream_joke_async, an async generator, pulled by sse_generator,     *)
(*     which encodes each event as one server-sent-event unit;             *)
(*   - the tool-enabled chatbot graph (2., 3., 6.): the chatbot node, the  *)
(*     tools node, the conditional edge between them and the checkpoint    *)
(*     store keyed by thread id;                                           *)
(*   - the console loop of the basic chatbot (1.): input, one turn, and    *)
(*     the except clause with its default input.                           *)
(***************************************************************************)
EXTENDS Integers, Sequences, FiniteSets, TLC

(* ------------------------------ bounds --------------------------------- *)

\* longest fragment sequence one fragment source produces
MaxFrags == 3

\* most messages a conversation holds when the model is invoked once more
MaxMessages == 5

\* most tool calls one model reply requests
MaxCalls == 2

\* most pipeline runs (turns) started
MaxRuns == 3

\* most model invocations the console loop makes
MaxTurns == 4

(* ------------------------- generic helpers ----------------------------- *)

Range(s) == {s[i] : i \in 1..Len(s)}

Last(s) == s[Len(s)]

SeqsUpTo(S, n) == UNION {[1..k -> S] : k \in 0..n}

(* ------------------------------ inputs --------------------------------- *)

\* the topic query parameter; "rabbit" stands for the default "兔子"
Topics == {"rabbit", "dog"}

\* chunk.content of one chunk of llm.astream; "" is a chunk without text
FragTexts == {"", "a", "b"}

\* a raised exception: its class (Exception, or a BaseException that is not
\* an Exception, such as asyncio.CancelledError) and str(e)
Exc(class, msg) == [class |-> class, msg |-> msg]

NoExc == Exc("none", "")

GeneratorExit == Exc("GeneratorExit", "")

\* what can end llm.astream after its fragments: normal exhaustion (NoExc),
\* an Exception, or a BaseException delivered at the await point
AstreamEndings == {NoExc, Exc("Exception", "boom"), Exc("BaseException", "cancelled")}

\* what get_llm() can do: return (NoExc) or raise an Exception
GetLlmOutcomes == {NoExc, Exc("Exception", "no api key")}

(* --------------------------- the state --------------------------------- *)

VARIABLES
    topic,          \* stream_joke_async's argument
    refined_topic,  \* local of stream_joke_async (line 56)
    astream,        \* the fragment source: [frags, raises]
    llmExc,         \* the outcome of get_llm() (line 66)
    pc,             \* where stream_joke_async is suspended
    idx,            \* number of chunks llm.astream has produced so far
    pending,        \* the exception in flight while suspended in finally
    events,         \* every StepEvent stream_joke_async has yielded
    sink,           \* the transport units sse_generator has yielded
    closedAt,       \* Len(events) when the sink disconnected, or NotClosed
    closeError,     \* closing stream_joke_async raised RuntimeError
    thread,         \* config["configurable"]["thread_id"] of the current run
    node,           \* the node the graph runs next
    messages,       \* state["messages"] of the current run
    store,          \* the MemorySaver: thread id -> checkpointed messages
    nextId,         \* the next fresh message id
    runs,           \* number of runs started
    input,          \* the user message the current run was started with
    invokes,        \* llm_with_tools.invoke calls made in the current run
    firstInvokeArg, \* the message list given to the first of them
    toolRuns,       \* the tool-call requests the tool was invoked for
    final,          \* thread id -> messages at the end of its last finished run
    prevFinal,      \* final[thread] as it was before the current run finished
    console,        \* where the console loop of 1. stands
    user_input,     \* the console loop's user_input
    invocations,    \* every llm.invoke of the console loop: its input, its outcome
    caught          \* what the loop's except clause has caught

streamVars == <<topic, refined_topic, astream, llmExc, pc, idx, pending,
                events, sink, closedAt, closeError>>

graphVars == <<thread, node, messages, store, nextId, runs, input, invokes,
               firstInvokeArg, toolRuns, final, prevFinal>>

consoleVars == <<console, user_input, invocations, caught>>

vars == <<streamVars, graphVars, consoleVars>>

NotClosed == -1

Disconnected == closedAt # NotClosed

(* ------------------- StepEvent and its SSE encoding -------------------- *)

\* StepEvent(...) builds a dict holding exactly the keys it is given
StepEvent(stage, status) == [type |-> "step", stage |-> stage, status |-> status]

StepResult(stage, status, result) ==
    [type |-> "step", stage |-> stage, status |-> status, result |-> result]

ContentEvent(c) == [type |-> "content", content |-> c]

ErrorEvent(msg) == [type |-> "error", content |-> msg]

GenerateComplete == StepEvent("generate", "complete")

\* the order in which the keyword arguments of StepEvent are written
KeyOrder == <<"type", "stage", "status", "result", "content">>

\* json.dumps losing the result key
json_dumps_without_result(e) ==
    LET present == SelectSeq(KeyOrder, LAMBDA k : k \in DOMAIN e /\ k # "result")
    IN  [i \in 1..Len(present) |-> <<present[i], e[present[i]]>>]

\* json.dumps(event): the dict's items, in insertion order, as key/value pairs
json_dumps(e) ==
    LET present == SelectSeq(KeyOrder, LAMBDA k : k \in DOMAIN e)
    IN  [i \in 1..Len(present) |-> <<present[i], e[present[i]]>>]

\* f"data: {json.dumps(event)}\n\n" (line 334): one transport unit
sse_unit(e) == <<"data: ", json_dumps(e), "\n\n">>

\* the page's JSON.parse(event.data) (line 223): the object a unit carries
JSON_parse(unit) ==
    LET items == Range(unit[2])
    IN  [k \in {p[1] : p \in items} |-> (CHOOSE p \in items : p[1] = k)[2]]

(* ------------------------- refine_topic -------------------------------- *)

\* state["topic"] + " 和猫"; " & cat" stands for the fixed suffix
refine_topic(t) == t \o " & cat"

(* --------------------------- the relay --------------------------------- *)

\* stream_joke_async yields e and sse_generator hands it on as one unit
Emit(e) ==
    /\ events' = Append(events, e)
    /\ sink' = Append(sink, sse_unit(e))

\* the test of line 72 left out: every chunk is forwarded
TruthyAlways(c) == TRUE

\* `if chunk.content:` (line 72)
Truthy(c) == c # ""

\* the index of the next chunk after i whose content is truthy, 0 if none
NextTruthy(i) ==
    LET later == {j \in (i+1)..Len(astream.frags) : Truthy(astream.frags[j])}
    IN  IF later = {} THEN 0 ELSE CHOOSE j \in later : \A k \in later : j <= k

StreamInit ==
    /\ topic = ""
    /\ refined_topic = ""
    /\ astream = [frags |-> <<>>, raises |-> NoExc]
    /\ llmExc = NoExc
    /\ pc = "idle"
    /\ idx = 0
    /\ pending = NoExc
    /\ events = <<>>
    /\ sink = <<>>
    /\ closedAt = NotClosed
    /\ closeError = FALSE

\* GET /joke/sse: sse_generator(topic) is created over stream_joke_async(topic)
joke_stream ==
    /\ pc = "idle"
    /\ \E t \in Topics, lx \in GetLlmOutcomes :
         \E F \in (IF lx = NoExc THEN SeqsUpTo(FragTexts, MaxFrags) ELSE {<<>>}),
            ex \in (IF lx = NoExc THEN AstreamEndings ELSE {NoExc}) :
            /\ topic' = t
            /\ llmExc' = lx
            /\ astream' = [frags |-> F, raises |-> ex]
    /\ pc' = "start"
    /\ UNCHANGED <<refined_topic, idx, pending, events, sink, closedAt, closeError>>
    /\ UNCHANGED graphVars
    /\ UNCHANGED consoleVars

\* line 55
RefineStart ==
    /\ pc = "start" /\ ~Disconnected
    /\ Emit(StepEvent("refine", "start"))
    /\ pc' = "y55"
    /\ UNCHANGED <<topic, refined_topic, astream, llmExc, idx, pending, closedAt, closeError>>
    /\ UNCHANGED graphVars
    /\ UNCHANGED consoleVars

\* lines 56-62
RefineComplete ==
    /\ pc = "y55" /\ ~Disconnected
    /\ refined_topic' = refine_topic(topic)
    /\ Emit(StepResult("refine", "complete", refined_topic'))
    /\ pc' = "y57"
    /\ UNCHANGED <<topic, astream, llmExc, idx, pending, closedAt, closeError>>
    /\ UNCHANGED graphVars
    /\ UNCHANGED consoleVars

\* line 65
GenerateStart ==
    /\ pc = "y57" /\ ~Disconnected
    /\ Emit(StepEvent("generate", "start"))
    /\ pc' = "y65"
    /\ UNCHANGED <<topic, refined_topic, astream, llmExc, idx, pending, closedAt, closeError>>
    /\ UNCHANGED graphVars
    /\ UNCHANGED consoleVars

\* a finally block that does not yield the completion event
FinallyBlockWithoutYield(ex) ==
    /\ UNCHANGED <<events, sink>>
    /\ pending' = ex
    /\ pc' = "y76"

\* the finally block (lines 74-76), entered with exception ex in flight
FinallyBlock(ex) ==
    /\ Emit(GenerateComplete)
    /\ pending' = ex
    /\ pc' = "y76"

\* the except clause (lines 78-79), entered with exception ex
ExceptBlock(ex) ==
    /\ Emit(ErrorEvent(ex.msg))
    /\ pending' = NoExc
    /\ pc' = "y79"

\* the async for over llm.astream (lines 68-76), resumed with i chunks taken
AstreamLoop(i) ==
    LET j == NextTruthy(i)
    IN  IF j # 0
        THEN /\ idx' = j
             /\ Emit(ContentEvent(astream.frags[j]))
             /\ pc' = "y73"
             /\ UNCHANGED pending
        ELSE /\ idx' = Len(astream.frags)
             /\ FinallyBlock(astream.raises)

\* lines 66-76, resumed after the generate-start yield
Generate ==
    /\ pc = "y65" /\ ~Disconnected
    /\ IF llmExc # NoExc
       THEN ExceptBlock(llmExc) /\ UNCHANGED idx
       ELSE AstreamLoop(0)
    /\ UNCHANGED <<topic, refined_topic, astream, llmExc, closedAt, closeError>>
    /\ UNCHANGED graphVars
    /\ UNCHANGED consoleVars

\* lines 69-76, resumed after a content yield
NextChunk ==
    /\ pc = "y73" /\ ~Disconnected
    /\ AstreamLoop(idx)
    /\ UNCHANGED <<topic, refined_topic, astream, llmExc, closedAt, closeError>>
    /\ UNCHANGED graphVars
    /\ UNCHANGED consoleVars

\* resumed after the yield of the finally block: the exception in flight, if
\* any, is raised again and meets `except Exception` (line 78)
AfterFinally ==
    /\ pc = "y76" /\ ~Disconnected
    /\ CASE pending = NoExc -> pc' = "done" /\ UNCHANGED <<pending, events, sink>>
         [] pending.class = "Exception" -> ExceptBlock(pending)
         [] OTHER -> pc' = "raised" /\ UNCHANGED <<pending, events, sink>>
    /\ UNCHANGED <<topic, refined_topic, astream, llmExc, idx, closedAt, closeError>>
    /\ UNCHANGED graphVars
    /\ UNCHANGED consoleVars

\* line 81
ExceptComplete ==
    /\ pc = "y79" /\ ~Disconnected
    /\ Emit(GenerateComplete)
    /\ pc' = "y81"
    /\ UNCHANGED <<topic, refined_topic, astream, llmExc, idx, pending, closedAt, closeError>>
    /\ UNCHANGED graphVars
    /\ UNCHANGED consoleVars

\* falling off the end of the except clause
Finish ==
    /\ pc = "y81" /\ ~Disconnected
    /\ pc' = "done"
    /\ UNCHANGED <<topic, refined_topic, astream, llmExc, idx, pending, events, sink,
                   closedAt, closeError>>
    /\ UNCHANGED graphVars
    /\ UNCHANGED consoleVars

Suspended == {"y55", "y57", "y65", "y73", "y76", "y79", "y81"}

\* the client goes away while sse_generator is suspended at its yield or in
\* its sleep (lines 334-335): sse_generator ends there, nothing more is sent
Disconnect ==
    /\ pc \in Suspended /\ ~Disconnected
    /\ closedAt' = Len(events)
    /\ UNCHANGED <<topic, refined_topic, astream, llmExc, pc, idx, pending, events, sink,
                   closeError>>
    /\ UNCHANGED graphVars
    /\ UNCHANGED consoleVars

\* stream_joke_async, abandoned by sse_generator, is closed: GeneratorExit is
\* thrown in at the yield where it is suspended. It is no Exception, so line
\* 78 does not catch it; inside the inner try the finally block runs and
\* yields, which aclose() reports as RuntimeError.
aclose ==
    /\ Disconnected /\ pc \in Suspended /\ ~closeError
    /\ IF pc = "y73"
       THEN /\ events' = Append(events, GenerateComplete)
            /\ pending' = GeneratorExit
            /\ pc' = "y76"
            /\ closeError' = TRUE
       ELSE /\ pc' = "closed"
            /\ UNCHANGED <<events, pending, closeError>>
    /\ UNCHANGED <<topic, refined_topic, astream, llmExc, idx, sink, closedAt>>
    /\ UNCHANGED graphVars
    /\ UNCHANGED consoleVars

\* one pull of the consumer: stream_joke_async runs to its next yield
Pull ==
    \/ RefineStart
    \/ RefineComplete
    \/ GenerateStart
    \/ Generate
    \/ NextChunk
    \/ AfterFinally
    \/ ExceptComplete
    \/ Finish

(* ===================== the chatbot graph =============================== *)

\* thread ids a caller passes in config (3.: "1")
Threads == {"1", "2"}

\* a run of a graph compiled without a checkpointer (2.), or without config
NoThread == "none"

\* the text a user types; no node looks at it
UserInputs == {"hi"}

\* the text the search tool gives back; no node looks at it
ToolOutputs == {"results"}

NoCall == <<>>

HumanMessage(id, text) ==
    [id |-> id, type |-> "human", content |-> text, tool_calls |-> <<>>,
     tool_call_id |-> NoCall]

\* a model reply with message id `id` requesting n tool calls
AIMessage(id, n) ==
    [id |-> id, type |-> "ai", content |-> "reply",
     tool_calls |-> [k \in 1..n |-> <<id, k>>], tool_call_id |-> NoCall]

ToolMessage(id, text, call) ==
    [id |-> id, type |-> "tool", content |-> text, tool_calls |-> <<>>,
     tool_call_id |-> call]

\* the position in left of the message with this id, 0 if there is none
IndexOfId(left, id) ==
    LET at == {i \in 1..Len(left) : left[i].id = id}
    IN  IF at = {} THEN 0 ELSE CHOOSE i \in at : TRUE

\* the reducer of State.messages: a message of right whose id is already in
\* left replaces that message in place, any other is appended
RECURSIVE add_messages_from(_, _, _)
add_messages_from(left, merged, right) ==
    IF right = <<>> THEN merged
    ELSE LET m == Head(right)
             i == IndexOfId(left, m.id)
         IN  add_messages_from(left,
                               IF i # 0 THEN [merged EXCEPT ![i] = m]
                                        ELSE Append(merged, m),
                               Tail(right))

\* State.messages declared without its reducer: an update overwrites the list
add_messages_overwrite(left, right) == right

add_messages(left, right) == add_messages_from(left, left, right)

\* a condition that looks at the first message instead of the last
tools_condition_first_message(msgs) ==
    IF msgs # <<>> /\ msgs[1].type = "ai" /\ Len(msgs[1].tool_calls) > 0
    THEN "tools"
    ELSE "__end__"

\* a condition that allows the tools node once per conversation
tools_condition_capped(msgs) ==
    IF /\ msgs # <<>> /\ Last(msgs).type = "ai" /\ Len(Last(msgs).tool_calls) > 0
       /\ \A i \in 1..Len(msgs) : msgs[i].type # "tool"
    THEN "tools"
    ELSE "__end__"

\* tools_condition: "tools" when the last message is a model reply that
\* requests tool calls, END otherwise
tools_condition(msgs) ==
    IF msgs # <<>> /\ Last(msgs).type = "ai" /\ Len(Last(msgs).tool_calls) > 0
    THEN "tools"
    ELSE "__end__"

\* a graph compiled without its checkpointer: nothing is ever loaded
checkpoint_load_nothing(T) == <<>>

\* the checkpointer's get for a thread id: nothing without a checkpointer
checkpoint_load(T) == IF T \in Threads THEN store[T] ELSE <<>>

\* the checkpointer's put after a step: the store with the state saved
checkpoint_save(T, msgs) == IF T \in Threads THEN [store EXCEPT ![T] = msgs] ELSE store

\* a tool node that answers only the first tool call of the reply
ToolNode_first_call_only(msgs, firstId, out) ==
    LET calls == Last(msgs).tool_calls
    IN  [k \in 1..1 |-> ToolMessage(firstId + k - 1, out, calls[k])]

\* ToolNode: for every tool call of the last model reply, in order, one
\* ToolMessage answering that call
ToolNode(msgs, firstId, out) ==
    LET calls == Last(msgs).tool_calls
    IN  [k \in 1..Len(calls) |-> ToolMessage(firstId + k - 1, out, calls[k])]

GraphInit ==
    /\ thread = NoThread
    /\ node = "idle"
    /\ messages = <<>>
    /\ store = [T \in Threads |-> <<>>]
    /\ nextId = 1
    /\ runs = 0
    /\ input = HumanMessage(0, "")
    /\ invokes = 0
    /\ firstInvokeArg = <<>>
    /\ toolRuns = <<>>
    /\ final = [T \in Threads |-> <<>>]
    /\ prevFinal = <<>>

\* graph.stream({"messages": [user message]}, config): the state is loaded
\* for the thread id, the input is merged in, and the entry point is chatbot
run_conversation ==
    /\ node \in {"idle", "__end__"}
    /\ runs < MaxRuns
    /\ \E T \in Threads \cup {NoThread}, u \in UserInputs :
         LET human == HumanMessage(nextId, u)
             state == add_messages(checkpoint_load(T), <<human>>)
         IN  /\ Len(state) <= MaxMessages
             /\ thread' = T
             /\ input' = human
             /\ messages' = state
             /\ store' = checkpoint_save(T, state)
    /\ node' = "chatbot"
    /\ nextId' = nextId + 1
    /\ runs' = runs + 1
    /\ invokes' = 0
    /\ firstInvokeArg' = <<>>
    /\ UNCHANGED <<toolRuns, final, prevFinal>>
    /\ UNCHANGED streamVars
    /\ UNCHANGED consoleVars

\* the chatbot node and the conditional edge that follows it
chatbot ==
    /\ node = "chatbot"
    /\ Len(messages) <= MaxMessages
    /\ \E n \in 0..MaxCalls :
         LET state == add_messages(messages, <<AIMessage(nextId, n)>>)
             to == tools_condition(state)
         IN  /\ messages' = state
             /\ node' = to
             /\ store' = checkpoint_save(thread, state)
             /\ IF to = "__end__" /\ thread \in Threads
                THEN /\ prevFinal' = final[thread]
                     /\ final' = [final EXCEPT ![thread] = state]
                ELSE UNCHANGED <<final, prevFinal>>
    /\ invokes' = invokes + 1
    /\ firstInvokeArg' = IF invokes = 0 THEN messages ELSE firstInvokeArg
    /\ nextId' = nextId + 1
    /\ UNCHANGED <<thread, runs, input, toolRuns>>
    /\ UNCHANGED streamVars
    /\ UNCHANGED consoleVars

\* the tools node and the edge tools -> chatbot
tools ==
    /\ node = "tools"
    /\ \E out \in ToolOutputs :
         LET results == ToolNode(messages, nextId, out)
             state == add_messages(messages, results)
         IN  /\ messages' = state
             /\ store' = checkpoint_save(thread, state)
             /\ toolRuns' = toolRuns \o [k \in 1..Len(results) |-> results[k].tool_call_id]
             /\ nextId' = nextId + Len(results)
    /\ node' = "chatbot"
    /\ UNCHANGED <<thread, runs, input, invokes, firstInvokeArg, final, prevFinal>>
    /\ UNCHANGED streamVars
    /\ UNCHANGED consoleVars

(* ================= the console loop of the basic chatbot =============== *)

\* lines a user types at the prompt
ConsoleLines == {"hi", "hello", "q", "Quit"}

\* str.lower() on the lines above
lower(l) == CASE l = "Quit" -> "quit" [] OTHER -> l

\* line 97
QuitTokens == {"quit", "exit", "q"}

\* line 105
DefaultInput == "What do you know about LangGraph?"

\* one llm.invoke made through stream_graph_updates(text) (lines 82, 53):
\* the user message it was given and whether it returned or raised
Invocation(text, ok) == [content |-> text, ok |-> ok]

ConsoleInit ==
    /\ console = "prompt"
    /\ user_input = ""
    /\ invocations = <<>>
    /\ caught = "nothing"

\* lines 93-99: input() returns a line, or raises where it is not available;
\* a quit token leaves the loop, a raise enters the except clause (103-106)
read_input ==
    /\ console = "prompt"
    /\ Len(invocations) < MaxTurns
    /\ \/ \E l \in ConsoleLines :
            IF lower(l) \in QuitTokens
            THEN console' = "exited" /\ UNCHANGED <<user_input, caught>>
            ELSE console' = "turn" /\ user_input' = l /\ UNCHANGED caught
       \/ /\ console' = "fallback"
          /\ user_input' = DefaultInput
          /\ caught' = "input"
    /\ UNCHANGED invocations
    /\ UNCHANGED <<streamVars, graphVars>>

\* line 102: stream_graph_updates(user_input) inside the try; the model
\* replies and the loop prompts again, or the model raises and the bare
\* except clause (103-106) catches it and takes the default input
turn ==
    /\ console = "turn"
    /\ \E ok \in BOOLEAN :
         /\ invocations' = Append(invocations, Invocation(user_input, ok))
         /\ IF ok
            THEN console' = "prompt" /\ UNCHANGED <<user_input, caught>>
            ELSE /\ console' = "fallback"
                 /\ user_input' = DefaultInput
                 /\ caught' = "model"
    /\ UNCHANGED <<streamVars, graphVars>>

\* lines 107-108: stream_graph_updates(user_input) inside the except clause,
\* then break; a failure here leaves the loop as an unhandled exception
fallback ==
    /\ console = "fallback"
    /\ \E ok \in BOOLEAN :
         /\ invocations' = Append(invocations, Invocation(user_input, ok))
         /\ console' = IF ok THEN "exited" ELSE "crashed"
    /\ UNCHANGED <<user_input, caught>>
    /\ UNCHANGED <<streamVars, graphVars>>

(* ======================== specifications =============================== *)

Init == StreamInit /\ GraphInit /\ ConsoleInit

Next ==
    \/ joke_stream
    \/ Pull
    \/ Disconnect
    \/ aclose

\* the streaming relay
Spec == Init /\ [][Next]_vars

\* a consumer that keeps reading: a pull that can be made is made
FairSpec == Spec /\ WF_vars(Pull)

GraphNext ==
    \/ run_conversation
    \/ chatbot
    \/ tools

\* the chatbot graph with its checkpoint store
GraphSpec == Init /\ [][GraphNext]_vars

ConsoleNext ==
    \/ read_input
    \/ turn
    \/ fallback

\* the console loop of the basic chatbot
ConsoleSpec == Init /\ [][ConsoleNext]_vars

(* ===================== properties of the relay ========================= *)

ContentsOf(es) == SelectSeq(es, LAMBDA e : e.type = "content")

\* what the page decodes from the units it has received
SinkEvents == [i \in 1..Len(sink) |-> JSON_parse(sink[i])]

CompleteCount(es) == Cardinality({i \in 1..Len(es) : es[i] = GenerateComplete})

Ended == pc \in {"done", "raised"}

NonEmpty(F) == SelectSeq(F, LAMBDA f : f # "")

ContentEvents(F) == [i \in 1..Len(F) |-> ContentEvent(F[i])]

\* the events after step(generate, start), the third event
FromGenerate(es) == SubSeq(es, 4, Len(es))

LastIsComplete ==
    /\ events # <<>> /\ Last(events) = GenerateComplete
    /\ sink # <<>> /\ JSON_parse(Last(sink)) = GenerateComplete

\* C1: once a request is being served, a consumer that keeps reading (one
\* that has not disconnected) eventually sees the generator end, and whenever
\* the generator has ended, by returning or by raising, the last event it
\* produced and the last unit the consumer received is
\* step(generate, complete) - for a successful source, a source raising after
\* any number of fragments, and get_llm raising.
C1_CompletionIsLast ==
    /\ (pc # "idle") ~> (Disconnected \/ (Ended /\ LastIsComplete))
    /\ [](Ended => LastIsComplete)

C1_Witness ==
    /\ pc = "done"
    /\ astream.raises.class = "Exception"
    /\ Len(astream.frags) = 2
    /\ LastIsComplete

\* C2: in every complete run, the number of step(generate, complete) events
\* emitted is exactly one.
C2_ExactlyOneComplete == Ended => CompleteCount(events) = 1

\* C3: if llm.astream raises an Exception, then the events from the generate
\* stage onward are the content events, then one error event with the
\* failure's message, then one step(generate, complete), and nothing else.
C3_ErrorThenComplete ==
    (pc = "done" /\ astream.raises.class = "Exception") =>
        LET g == FromGenerate(events)
        IN  g = ContentsOf(g) \o <<ErrorEvent(astream.raises.msg), GenerateComplete>>

\* C4 as stated: for a source that yields F without raising, the sink
\* receives refine start, refine complete with the refined topic, generate
\* start, content(f) for every f of F in order, generate complete.
C4_SinkSequenceAllFragments ==
    (pc = "done" /\ llmExc = NoExc /\ astream.raises = NoExc) =>
        SinkEvents = <<StepEvent("refine", "start"),
                       StepResult("refine", "complete", topic \o " & cat"),
                       StepEvent("generate", "start")>>
                     \o ContentEvents(astream.frags)
                     \o <<GenerateComplete>>

\* C4 amended: the same sequence, with content(f) for every f of F whose
\* text is not empty, in order.
C4_SinkSequence ==
    (pc = "done" /\ llmExc = NoExc /\ astream.raises = NoExc) =>
        SinkEvents = <<StepEvent("refine", "start"),
                       StepResult("refine", "complete", topic \o " & cat"),
                       StepEvent("generate", "start")>>
                     \o ContentEvents(NonEmpty(astream.frags))
                     \o <<GenerateComplete>>

C4_Witness ==
    /\ pc = "done" /\ llmExc = NoExc /\ astream.raises = NoExc
    /\ astream.frags = <<"a", "", "b">>
    /\ Len(sink) = 6

\* C5 as stated: the content events are, one for one and in order, the
\* fragments the source has produced so far, empty ones included.
C5_OneContentPerFragment ==
    ContentsOf(events) = ContentEvents(SubSeq(astream.frags, 1, idx))

\* C5 amended: the content events, yielded and received, are, one for one
\* and in order, the fragments produced so far whose text is not empty; a
\* fragment with empty text produces no event.
C5_OneContentPerNonEmptyFragment ==
    /\ ContentsOf(events) = ContentEvents(NonEmpty(SubSeq(astream.frags, 1, idx)))
    /\ ~Disconnected => ContentsOf(SinkEvents) = ContentsOf(events)

C5_Witness ==
    /\ astream.frags = <<"b", "", "a">>
    /\ idx = 3
    /\ ContentsOf(SinkEvents) = <<ContentEvent("b"), ContentEvent("a")>>

\* C6: once the sink has disconnected, stream_joke_async yields no further
\* event and closing it raises no error.
C6_NoYieldAfterDisconnect ==
    Disconnected => (Len(events) = closedAt /\ ~closeError)

(* ================== properties of the chatbot graph ==================== *)

\* the model's latest reply requests a tool call
RequestsTool(msgs) ==
    /\ msgs # <<>>
    /\ Last(msgs).type = "ai"
    /\ Last(msgs).tool_calls # <<>>

\* C7: every run starts at the chatbot node; a step of the chatbot node
\* appends the model's reply and leads to the tools node if and only if that
\* reply requests a tool call, and to the end of the run otherwise; a step of
\* the tools node leads to the chatbot node. No other transition occurs.
C7_Transitions ==
    [][ /\ node \in {"idle", "__end__"} => node' = "chatbot"
        /\ node = "chatbot" =>
             /\ Len(messages') = Len(messages) + 1
             /\ Last(messages').type = "ai"
             /\ node' = (IF RequestsTool(messages') THEN "tools" ELSE "__end__")
        /\ node = "tools" => node' = "chatbot"
      ]_vars

C7_Witness ==
    /\ node = "__end__"
    /\ invokes = 2
    /\ toolRuns # <<>>

TimesInvoked(call) == Cardinality({j \in 1..Len(toolRuns) : toolRuns[j] = call})

ResultsFor(call) ==
    {j \in 1..Len(messages) :
        messages[j].type = "tool" /\ messages[j].tool_call_id = call}

\* C9: whenever the chatbot node is about to run (or the run has ended),
\* every tool call requested by a model reply in the conversation has had the
\* tool invoked exactly once for it and has exactly one tool-result message,
\* appended right after that reply in the order of the requests; while the
\* tools node is pending, the latest reply's calls have no result yet.
C9_OneToolResultPerCall ==
    /\ node \in {"chatbot", "__end__"} =>
         \A i \in 1..Len(messages) :
            \A k \in 1..Len(messages[i].tool_calls) :
               LET call == messages[i].tool_calls[k]
               IN  /\ TimesInvoked(call) = 1
                   /\ ResultsFor(call) = {i + k}
    /\ node = "tools" =>
         \A k \in 1..Len(Last(messages).tool_calls) :
            LET call == Last(messages).tool_calls[k]
            IN  TimesInvoked(call) = 0 /\ ResultsFor(call) = {}

C9_Witness ==
    /\ node = "chatbot"
    /\ Len(messages) = 4
    /\ Len(messages[2].tool_calls) = 2
    /\ messages[4].type = "tool"

\* the final state of the previous finished run of the current thread
S1 ==
    IF thread \notin Threads THEN <<>>
    ELSE IF node = "__end__" THEN prevFinal ELSE final[thread]

\* C10: the first model invocation of a run receives exactly the messages
\* the previous run of the same thread id ended with, in the same order,
\* followed by the run's new user message; it receives no message of a run
\* made under another thread id.
C10_MemoryPrefix ==
    invokes >= 1 =>
        /\ firstInvokeArg = S1 \o <<input>>
        /\ \A T \in Threads \ {thread} :
              Range(firstInvokeArg) \cap Range(final[T]) = {}

C10_Witness ==
    /\ thread = "1"
    /\ node # "__end__"
    /\ invokes >= 1
    /\ Len(final["1"]) >= 2
    /\ final["2"] # <<>>
    /\ Len(firstInvokeArg) = Len(final["1"]) + 1

IsPrefix(a, b) == Len(a) <= Len(b) /\ SubSeq(b, 1, Len(a)) = a

\* C11: within a run, every step of the chatbot node and of the tools node
\* leaves the message list it found as a prefix of the message list it
\* produces (no message is removed, replaced or reordered), and a step of the
\* chatbot node appends exactly one message.
C11_AppendOnly ==
    [][ /\ node \in {"chatbot", "tools"} => IsPrefix(messages, messages')
        /\ node = "chatbot" => Len(messages') = Len(messages) + 1
        /\ node = "tools" => Len(messages') >= Len(messages) + 1
      ]_vars

C11_Witness ==
    /\ thread = "1"
    /\ runs >= 2
    /\ invokes >= 2
    /\ Len(messages) >= 5
    /\ IsPrefix(final["1"], messages)

(* ================== properties of the console loop ===================== *)

\* C12: a model invocation that fails is the last one the console loop
\* makes: no retry and no substitute request follows it.
C12_NoInvocationAfterFailure ==
    \A i \in 1..Len(invocations) : ~invocations[i].ok => i = Len(invocations)

====
